---- MODULE Spec2Model ----
(***************************************************************************)
(* EMailRep: the scheduling-and-dispatch engine (server/services/          *)
(* scheduler.ts) over the in-memory store (server/storage.ts) and the      *)
(* HTTP routes that write to the same store (server/routes.ts).            *)
(*                                                                         *)
(* Granularity.  Node runs one macrotask at a time and drains every        *)
(* microtask before the next one.  Every MemStorage method is an async     *)
(* function that never waits for I/O, so a chain of "await storage.x()"    *)
(* runs without any other handler in between.  The only await of the       *)
(* scheduler that waits for I/O is "await sendEmail(...)".  An action of   *)
(* this model is therefore one macrotask: a whole HTTP handler, or the     *)
(* part of a tick from one sendEmail await to the next.                    *)
(*                                                                         *)
(* Time is counted in minutes; the clock of the model starts on the first  *)
(* minute of a 31-day month.  The createdAt fields are left out: they are  *)
(* written once, at creation, and no operation modelled here reads them.   *)
(***************************************************************************)
EXTENDS Integers, Sequences, FiniteSets, TLC

\* ---------------------------------------------------------------- bounds
MaxTime == 2
MaxEmails == 2
MaxClients == 1
MaxTemplates == 1
MaxInFlight == 2

\* ------------------------------------------------------------- constants
TickInterval == 1
ImmediateDelay == 1
MinutesPerDay == 1440
NullTime == -1
\* the year the clock of the model starts in, and the years it can tell apart
BaseYear == 2023
Years == BaseYear..(BaseYear + 3)

NullMsg == "<null>"
NullText == << <<"null", "">> >>
EmptyText == << >>

Statuses == {"pending", "sent", "failed", "cancelled"}
Terminal == {"sent", "failed", "cancelled"}
Delays == {"immediate", "1day", "1week", "1month"}

NotFoundMsg == "Client or template not found"
SendFailedMsg == "Failed to send email via SendGrid"
ContentMsg(language) == "Template content not available for language: " \o language

\* ---------------------------------------------------------------- inputs
\* request bodies the routes accept, drawn from small sets
\* a client id that is never created stands for any unknown id
ClientIdInputs == 1..(MaxClients + 1)
LanguageInputs == {""}
DelayInputs == {"immediate"}
ClientInputs ==
  { [name |-> "Acme", company |-> "", language |-> "en",
     customFields |-> << >>, lastInteraction |-> NullTime] }
TemplateInputs ==
  { [subject |-> [l \in {"en"} |-> << <<"lit", "Hi ">>, <<"var", "client_name">> >>],
     content |-> [l \in {"en"} |-> << <<"lit", "Dear ">>, <<"var", "client_name">>, <<"var", "ghost">> >>],
     primaryLanguage |-> "en", supportedLanguages |-> {"en"}],
    [subject |-> [l \in {"en"} |-> << <<"lit", "Hi">> >>],
     content |-> [l \in {"en"} |-> EmptyText],
     primaryLanguage |-> "en", supportedLanguages |-> {"en"}] }
\* bodies of PUT /api/scheduled-emails/:id as <<scheduledFor, status>>; NullTime
\* and "none" stand for a field the body does not carry
PutBodies ==
  { <<MinutesPerDay, "none">>, <<NullTime, "pending">>, <<NullTime, "sent">>,
    <<NullTime, "failed">>, <<NullTime, "cancelled">>, <<MinutesPerDay, "pending">> }
\* bodies of PUT /api/scheduled-emails/:id that move a record to another time
RescheduleBodies == { <<t, "none">> : t \in 0..MaxTime }
\* the body the cancel button sends
CancelBodies == { <<NullTime, "cancelled">> }
\* bodies of PUT /api/templates/:id: one that leaves French as the only
\* supported language, and one that replaces the English content
TemplateUpdates ==
  { [supportedLanguages |-> {"fr"}],
    [content |-> [l \in {"en"} |-> << <<"lit", "Hello again">> >>]] }
\* a body of PUT /api/clients/:id
ClientUpdates == { [name |-> "Acme Ltd"] }
\* what sendEmail may do: resolve true, resolve false, or throw an Error
TransportOutcomes == {"true", "false", "throw"}
TransportErrorMsg == "ETIMEDOUT"
\* sendEmail may also throw a value that is not an Error
AllTransportOutcomes == TransportOutcomes \cup {"throwValue"}
UnknownErrorMsg == "Unknown error"
\* requests that name a language, and templates in two languages: one with a
\* French subject and an English content only, and one that is complete in
\* English and has a French subject but no French content
RenderLanguageInputs == {"", "fr"}
\* a client with a company, a last interaction on the second day of the clock,
\* and custom fields, one of them named like a built-in variable
RenderClientInputs ==
  ClientInputs \cup
  { [name |-> "Acme", company |-> "Acme Inc", language |-> "en",
     customFields |-> [k \in {"client_name", "nickname"} |->
                         IF k = "client_name" THEN "Boss" ELSE "Bo"],
     lastInteraction |-> MinutesPerDay] }
RenderTemplateInputs ==
  TemplateInputs \cup
  { [subject |-> [l \in {"fr"} |-> << <<"lit", "Bonjour ">>, <<"var", "client_name">> >>],
     content |-> [l \in {"en"} |-> << <<"lit", "Dear ">>, <<"var", "client_name">>,
                                      <<"var", "company">>, <<"var", "last_interaction">>,
                                      <<"var", "nickname">> >>],
     primaryLanguage |-> "en", supportedLanguages |-> {"en", "fr"}],
    [subject |-> [l \in {"en", "fr"} |->
                    IF l = "en" THEN << <<"lit", "Hello ">>, <<"var", "client_name">> >>
                    ELSE << <<"lit", "Salut ">>, <<"var", "client_name">> >>],
     content |-> [l \in {"en"} |-> << <<"var", "client_name">>, <<"lit", ", ">>,
                                      <<"var", "client_name">>, <<"var", "ghost">> >>],
     primaryLanguage |-> "en", supportedLanguages |-> {"en", "fr"}] }

VARIABLES
  now,                      \* the clock (new Date()), in minutes
  intervalId,               \* EmailScheduler.intervalId: is the timer set
  nextFire,                 \* when the setInterval timer fires next
  clients,                  \* MemStorage.clients
  emailTemplates,           \* MemStorage.emailTemplates
  scheduledEmails,          \* MemStorage.scheduledEmails
  emailLogs,                \* MemStorage.emailLogs, in id order
  currentClientId,
  currentTemplateId,
  currentScheduledEmailId,
  ticks,                    \* the processPendingEmails calls in flight
  storeDown,                \* the store rejects every call (SpecFault only)
  sendCount,                \* history: sendEmail calls made per scheduled email
  timers,                   \* the setInterval timers that are active
  fetchErrors               \* history: errors logged by processPendingEmails

vars == << now, intervalId, nextFire, clients, emailTemplates, scheduledEmails,
           emailLogs, currentClientId, currentTemplateId,
           currentScheduledEmailId, ticks, storeDown, sendCount, timers,
           fetchErrors >>

EmailIds == 1..MaxEmails
Slots == 1..MaxInFlight
IdleTick == [pc |-> "idle"]

\* ------------------------------------------------------------ the store
\* JavaScript's a || b on texts: the empty string is falsy
OrText(a, b) == IF a # EmptyText THEN a ELSE b
\* m[key] on a Record<string,string>: undefined (falsy) when the key is absent
Lookup(m, key) == IF key \in DOMAIN m THEN m[key] ELSE EmptyText

createClient(insertClient, id) ==
  [id |-> id, name |-> insertClient.name, company |-> insertClient.company,
   language |-> insertClient.language, customFields |-> insertClient.customFields,
   lastInteraction |-> insertClient.lastInteraction]

\* company: clientUpdate.company !== undefined ? clientUpdate.company :
\* existing.company is what the spread gives already
updateClient(cl, id, clientUpdate) ==
  IF id \notin DOMAIN cl THEN cl
  ELSE [cl EXCEPT ![id] = clientUpdate @@ cl[id]]

createEmailTemplate(insertTemplate, id) ==
  [id |-> id, subject |-> insertTemplate.subject, content |-> insertTemplate.content,
   primaryLanguage |-> insertTemplate.primaryLanguage,
   supportedLanguages |-> insertTemplate.supportedLanguages,
   usageCount |-> 0]

\* a variant that stores the update over a fresh template, usage counter at 0
updateEmailTemplateResetsUsage(templates, id, templateUpdate) ==
  IF id \notin DOMAIN templates THEN templates
  ELSE [templates EXCEPT ![id] = templateUpdate @@ [usageCount |-> 0] @@ templates[id]]

updateEmailTemplate(templates, id, templateUpdate) ==
  IF id \notin DOMAIN templates THEN templates
  ELSE [templates EXCEPT ![id] = templateUpdate @@ templates[id]]

\* a variant that counts a send twice
incrementTemplateUsageTwice(templates, id) ==
  IF id \in DOMAIN templates
    THEN [templates EXCEPT ![id].usageCount = templates[id].usageCount + 2]
    ELSE templates

incrementTemplateUsage(templates, id) ==
  IF id \in DOMAIN templates
    THEN [templates EXCEPT ![id].usageCount = templates[id].usageCount + 1]
    ELSE templates

createScheduledEmail(insertEmail, id) ==
  [id |-> id, clientId |-> insertEmail.clientId, templateId |-> insertEmail.templateId,
   scheduledFor |-> insertEmail.scheduledFor, status |-> "pending",
   language |-> IF insertEmail.language # "" THEN insertEmail.language ELSE "en",
   sentAt |-> NullTime, personalizedSubject |-> NullText,
   personalizedContent |-> NullText, errorMessage |-> NullMsg]

\* a variant that sets the entry also when the id is not in the Map
updateScheduledEmailUpsert(se, id, emailUpdate) ==
  [k \in DOMAIN se \cup {id} |->
     IF k # id THEN se[k]
     ELSE IF id \in DOMAIN se THEN emailUpdate @@ se[id] ELSE emailUpdate]

updateScheduledEmail(se, id, emailUpdate) ==
  IF id \notin DOMAIN se THEN se
  ELSE [se EXCEPT ![id] = emailUpdate @@ se[id]]

deleteFrom(map, id) == [k \in DOMAIN map \ {id} |-> map[k]]

createEmailLog(logs, insertLog, t) ==
  Append(logs, [id |-> Len(logs) + 1, clientId |-> insertLog.clientId,
                templateId |-> insertLog.templateId,
                scheduledEmailId |-> insertLog.scheduledEmailId,
                subject |-> insertLog.subject, status |-> insertLog.status,
                language |-> insertLog.language, sentAt |-> t,
                deliveredAt |-> NullTime, openedAt |-> NullTime,
                errorMessage |-> NullMsg])

\* what the dispatch engine reads of a record it was handed; these fields are
\* never written after creation
snapshot(rec) ==
  [id |-> rec.id, clientId |-> rec.clientId, templateId |-> rec.templateId,
   language |-> rec.language]

\* a variant that keeps the insertion order of the Map and does not sort
RECURSIVE SortById(_, _)
SortById(se, ids) ==
  IF ids = {} THEN << >>
  ELSE LET first == CHOOSE a \in ids : \A b \in ids : a <= b
       IN << snapshot(se[first]) >> \o SortById(se, ids \ {first})

\* the records of a set of ids, ordered by (scheduledFor, id): the Map keeps
\* insertion order, which is id order, and Array.prototype.sort is stable
RECURSIVE SortByDue(_, _)
SortByDue(se, ids) ==
  IF ids = {} THEN << >>
  ELSE LET first == CHOOSE a \in ids : \A b \in ids :
                      \/ se[a].scheduledFor < se[b].scheduledFor
                      \/ se[a].scheduledFor = se[b].scheduledFor /\ a <= b
       IN << snapshot(se[first]) >> \o SortByDue(se, ids \ {first})

\* a variant that does not look at the status
getPendingScheduledEmailsAnyStatus(se, t) ==
  SortByDue(se, { id \in DOMAIN se : se[id].scheduledFor <= t })

\* a variant that leaves out the records due exactly at the time of the fetch
getPendingScheduledEmailsStrict(se, t) ==
  SortByDue(se, { id \in DOMAIN se :
                    se[id].status = "pending" /\ se[id].scheduledFor < t })

getPendingScheduledEmails(se, t) ==
  SortByDue(se, { id \in DOMAIN se :
                    se[id].status = "pending" /\ se[id].scheduledFor <= t })

\* ------------------------------------------------------- the dispatch engine
\* Date.prototype.toLocaleDateString: the calendar day of the timestamp
toLocaleDateString(t) == "day " \o ToString(t \div MinutesPerDay)

\* a variant in which the built-ins are written after the custom fields
variablesOfBuiltinsLast(client) ==
  [client_name |-> client.name,
   company |-> client.company,
   last_interaction |-> IF client.lastInteraction # NullTime
                          THEN toLocaleDateString(client.lastInteraction)
                          ELSE "N/A"] @@
  client.customFields

\* the variable bag: the built-ins, then the custom fields spread over them
variablesOf(client) ==
  client.customFields @@
  [client_name |-> client.name,
   company |-> client.company,
   last_interaction |-> IF client.lastInteraction # NullTime
                          THEN toLocaleDateString(client.lastInteraction)
                          ELSE "N/A"]

\* services/email.ts personalizeContent: every {{name}} whose name is a key of
\* the bag becomes the value, any other placeholder stays as it is
personalizeContent(text, variables) ==
  [k \in 1..Len(text) |->
     IF text[k][1] = "var" /\ text[k][2] \in DOMAIN variables
       THEN <<"lit", variables[text[k][2]]>>
       ELSE text[k]]

\* a variant that prefers the language of the client
effectiveLanguageClientFirst(rec, client) ==
  IF client.language # "" THEN client.language
  ELSE IF rec.language # "" THEN rec.language ELSE "en"

effectiveLanguage(rec, client) ==
  IF rec.language # "" THEN rec.language
  ELSE IF client.language # "" THEN client.language ELSE "en"

resolveText(m, language, primaryLanguage) ==
  OrText(Lookup(m, language), OrText(Lookup(m, primaryLanguage), EmptyText))

\* a variant that personalizes the subject and sends the content as it is
prepareSubjectOnly(rec, cl, tp) ==
  IF rec.clientId \notin DOMAIN cl \/ rec.templateId \notin DOMAIN tp
    THEN [kind |-> "fail", tag |-> "notfound", msg |-> NotFoundMsg]
  ELSE LET client == cl[rec.clientId]
           template == tp[rec.templateId]
           language == effectiveLanguage(rec, client)
           subject == resolveText(template.subject, language, template.primaryLanguage)
           content == resolveText(template.content, language, template.primaryLanguage)
       IN IF subject = EmptyText \/ content = EmptyText
            THEN [kind |-> "fail", tag |-> "nocontent", msg |-> ContentMsg(language)]
            ELSE [kind |-> "send", language |-> language,
                  subject |-> personalizeContent(subject, variablesOf(client)),
                  content |-> content]

\* sendScheduledEmail up to the sendEmail call: either the failure it writes,
\* or the call it issues
prepare(rec, cl, tp) ==
  IF rec.clientId \notin DOMAIN cl \/ rec.templateId \notin DOMAIN tp
    THEN [kind |-> "fail", tag |-> "notfound", msg |-> NotFoundMsg]
  ELSE LET client == cl[rec.clientId]
           template == tp[rec.templateId]
           language == effectiveLanguage(rec, client)
           subject == resolveText(template.subject, language, template.primaryLanguage)
           content == resolveText(template.content, language, template.primaryLanguage)
       IN IF subject = EmptyText \/ content = EmptyText
            THEN [kind |-> "fail", tag |-> "nocontent", msg |-> ContentMsg(language)]
            ELSE [kind |-> "send", language |-> language,
                  subject |-> personalizeContent(subject, variablesOf(client)),
                  content |-> personalizeContent(content, variablesOf(client))]

\* a variant that records the message and leaves the status as it is
failedUpdateMessageOnly(msg) == [errorMessage |-> msg]

\* a variant that also clears the due time
failedUpdateClearsDue(msg) ==
  [status |-> "failed", errorMessage |-> msg, scheduledFor |-> NullTime]

failedUpdate(msg) == [status |-> "failed", errorMessage |-> msg]

sentUpdate(t, subject, content) ==
  [status |-> "sent", sentAt |-> t,
   personalizedSubject |-> subject, personalizedContent |-> content]

\* a variant in which the first failure ends the loop
processFromStopOnFail(se, cl, tp, batch, i) ==
  IF i > Len(batch)
    THEN [se |-> se, i |-> i, call |-> [kind |-> "none"]]
  ELSE LET p == prepare(batch[i], cl, tp)
       IN IF p.kind = "fail"
            THEN [se |-> updateScheduledEmail(se, batch[i].id, failedUpdate(p.msg)),
                  i |-> Len(batch) + 1, call |-> [kind |-> "none"]]
            ELSE [se |-> se, i |-> i, call |-> p]

\* the for loop of processPendingEmails from record i on, up to the next
\* sendEmail await (i <= Len(batch), call set) or the end of the batch
RECURSIVE processFrom(_, _, _, _, _)
processFrom(se, cl, tp, batch, i) ==
  IF i > Len(batch)
    THEN [se |-> se, i |-> i, call |-> [kind |-> "none"]]
  ELSE LET p == prepare(batch[i], cl, tp)
       IN IF p.kind = "fail"
            THEN processFrom(updateScheduledEmail(se, batch[i].id, failedUpdate(p.msg)),
                             cl, tp, batch, i + 1)
            ELSE [se |-> se, i |-> i, call |-> p]

\* the state of a processPendingEmails call after a run of processFrom
tickAfter(batch, res) ==
  IF res.call.kind = "none" THEN IdleTick
  ELSE [pc |-> "sending", batch |-> batch, i |-> res.i,
        language |-> res.call.language, subject |-> res.call.subject,
        content |-> res.call.content]

\* a variant in which the calls for all the records left are issued at once
countCallAll(count, batch, res) ==
  IF res.call.kind = "none" THEN count
  ELSE [id \in DOMAIN count |->
          IF \E k \in res.i..Len(batch) : batch[k].id = id
            THEN count[id] + 1 ELSE count[id]]

\* history: one more sendEmail call for the record the run stopped at
countCall(count, batch, res) ==
  IF res.call.kind = "none" THEN count
  ELSE [count EXCEPT ![batch[res.i].id] = @ + 1]

freeSlot(s) == ticks[s].pc = "idle" /\ \A q \in Slots : q < s => ticks[q].pc # "idle"

\* ------------------------------------------------------------------- Init
Init ==
  /\ now = 0
  /\ intervalId = FALSE
  /\ nextFire = 0
  /\ clients = << >>
  /\ emailTemplates = << >>
  /\ scheduledEmails = << >>
  /\ emailLogs = << >>
  /\ currentClientId = 1
  /\ currentTemplateId = 1
  /\ currentScheduledEmailId = 1
  /\ ticks = [s \in Slots |-> IdleTick]
  /\ storeDown = FALSE
  /\ sendCount = [id \in EmailIds |-> 0]
  /\ timers = 0
  /\ fetchErrors = 0

\* ------------------------------------------------------------ the scheduler
\* a variant without the early return: every call sets one more timer
startUnguarded ==
  /\ intervalId' = TRUE
  /\ timers' = timers + 1
  /\ nextFire' = now + TickInterval
  /\ UNCHANGED << now, clients, emailTemplates, scheduledEmails, emailLogs,
                  currentClientId, currentTemplateId, currentScheduledEmailId,
                  ticks, storeDown, sendCount, fetchErrors >>

start ==
  /\ ~intervalId
  /\ intervalId' = TRUE
  /\ timers' = timers + 1
  /\ nextFire' = now + TickInterval
  /\ UNCHANGED << now, clients, emailTemplates, scheduledEmails, emailLogs,
                  currentClientId, currentTemplateId, currentScheduledEmailId,
                  ticks, storeDown, sendCount, fetchErrors >>

\* a variant that forgets the timer without clearing it
stopKeepsTimer ==
  /\ intervalId
  /\ intervalId' = FALSE
  /\ UNCHANGED << now, nextFire, timers, clients, emailTemplates, scheduledEmails,
                  emailLogs, currentClientId, currentTemplateId,
                  currentScheduledEmailId, ticks, storeDown, sendCount,
                  fetchErrors >>

stop ==
  /\ intervalId
  /\ intervalId' = FALSE
  /\ timers' = timers - 1
  /\ nextFire' = 0
  /\ UNCHANGED << now, clients, emailTemplates, scheduledEmails,
                  emailLogs, currentClientId, currentTemplateId,
                  currentScheduledEmailId, ticks, storeDown, sendCount,
                  fetchErrors >>

\* the timer callback: processPendingEmails up to its first sendEmail await
processPendingEmails(s) ==
  /\ timers > 0 /\ nextFire = now /\ ~storeDown
  /\ freeSlot(s)
  /\ LET batch == getPendingScheduledEmails(scheduledEmails, now)
         res == processFrom(scheduledEmails, clients, emailTemplates, batch, 1)
     IN /\ scheduledEmails' = res.se
        /\ ticks' = [ticks EXCEPT ![s] = tickAfter(batch, res)]
        /\ sendCount' = countCall(sendCount, batch, res)
  /\ nextFire' = now + TickInterval
  /\ UNCHANGED << now, intervalId, clients, emailTemplates, emailLogs,
                  currentClientId, currentTemplateId, currentScheduledEmailId,
                  storeDown,
                  timers, fetchErrors >>

\* a variant whose catch block records 'Unknown error' for every throw
afterSendAnyThrowUnknown(tick, outcome, se, logs, tp, t) ==
  LET rec == tick.batch[tick.i]
  IN CASE outcome = "true" ->
            [se |-> updateScheduledEmail(se, rec.id, sentUpdate(t, tick.subject, tick.content)),
             logs |-> createEmailLog(logs,
                        [clientId |-> rec.clientId, templateId |-> rec.templateId,
                         scheduledEmailId |-> rec.id, subject |-> tick.subject,
                         status |-> "sent", language |-> tick.language], t),
             tp |-> incrementTemplateUsage(tp, rec.templateId)]
       [] outcome = "false" ->
            [se |-> updateScheduledEmail(se, rec.id, failedUpdate(SendFailedMsg)),
             logs |-> logs, tp |-> tp]
       [] OTHER ->
            [se |-> updateScheduledEmail(se, rec.id, failedUpdate(UnknownErrorMsg)),
             logs |-> logs, tp |-> tp]

\* what sendScheduledEmail writes once sendEmail has settled
afterSend(tick, outcome, se, logs, tp, t) ==
  LET rec == tick.batch[tick.i]
  IN CASE outcome = "true" ->
            [se |-> updateScheduledEmail(se, rec.id, sentUpdate(t, tick.subject, tick.content)),
             logs |-> createEmailLog(logs,
                        [clientId |-> rec.clientId, templateId |-> rec.templateId,
                         scheduledEmailId |-> rec.id, subject |-> tick.subject,
                         status |-> "sent", language |-> tick.language], t),
             tp |-> incrementTemplateUsage(tp, rec.templateId)]
       [] outcome = "false" ->
            [se |-> updateScheduledEmail(se, rec.id, failedUpdate(SendFailedMsg)),
             logs |-> logs, tp |-> tp]
       [] outcome = "throw" ->
            [se |-> updateScheduledEmail(se, rec.id, failedUpdate(TransportErrorMsg)),
             logs |-> logs, tp |-> tp]
       [] OTHER ->
            [se |-> updateScheduledEmail(se, rec.id, failedUpdate(UnknownErrorMsg)),
             logs |-> logs, tp |-> tp]

\* sendEmail settles: the rest of sendScheduledEmail for this record, then the
\* loop goes on to the next sendEmail await or to the end of the batch
sendEmailSettles(s, outcome) ==
  /\ ticks[s].pc = "sending" /\ ~storeDown
  /\ LET tick == ticks[s]
         w == afterSend(tick, outcome, scheduledEmails, emailLogs, emailTemplates, now)
         res == processFrom(w.se, clients, w.tp, tick.batch, tick.i + 1)
     IN /\ scheduledEmails' = res.se
        /\ emailLogs' = w.logs
        /\ emailTemplates' = w.tp
        /\ ticks' = [ticks EXCEPT ![s] = tickAfter(tick.batch, res)]
        /\ sendCount' = countCall(sendCount, tick.batch, res)
  /\ UNCHANGED << now, intervalId, nextFire, clients, currentClientId,
                  currentTemplateId, currentScheduledEmailId, storeDown,
                  timers, fetchErrors >>

\* ------------------------------------------------------------ the routes
\* The Date methods scheduleEmail calls, on timestamps in minutes of local
\* time since the first minute of BaseYear (a zone without daylight-saving
\* shifts).  Months are numbered from 0, as in JavaScript.
IsLeap(y) == y % 4 = 0 /\ (y % 100 # 0 \/ y % 400 = 0)

DaysInYear(y) == IF IsLeap(y) THEN 366 ELSE 365

DaysInMonth(y, m) ==
  CASE m = 1 -> IF IsLeap(y) THEN 29 ELSE 28
    [] m \in {3, 5, 8, 10} -> 30
    [] OTHER -> 31

\* the day number of 1 January of year y
RECURSIVE DayFromYear(_)
DayFromYear(y) ==
  IF y <= BaseYear THEN 0 ELSE DayFromYear(y - 1) + DaysInYear(y - 1)

\* the days of year y before its month m
RECURSIVE DaysBeforeMonth(_, _)
DaysBeforeMonth(y, m) ==
  IF m = 0 THEN 0 ELSE DaysBeforeMonth(y, m - 1) + DaysInMonth(y, m - 1)

\* MakeDay: the day number of the first day of the month, months past December
\* carried into the year, plus the date - 1, whatever the length of the month
MakeDay(y, m, date) ==
  DayFromYear(y + (m \div 12)) + DaysBeforeMonth(y + (m \div 12), m % 12) + date - 1

Day(t) == t \div MinutesPerDay

TimeWithinDay(t) == t % MinutesPerDay

getFullYear(t) ==
  CHOOSE y \in Years : DayFromYear(y) <= Day(t) /\ Day(t) < DayFromYear(y + 1)

getMonth(t) ==
  CHOOSE m \in 0..11 : /\ MakeDay(getFullYear(t), m, 1) <= Day(t)
                       /\ Day(t) < MakeDay(getFullYear(t), m + 1, 1)

getDate(t) == Day(t) - MakeDay(getFullYear(t), getMonth(t), 1) + 1

getMinutes(t) == t % 60

setMinutes(t, min) == t - getMinutes(t) + min

\* a variant that counts the days of the month from 0
setDateFromZero(t, date) ==
  (MakeDay(getFullYear(t), getMonth(t), date) + 1) * MinutesPerDay + TimeWithinDay(t)

setDate(t, date) ==
  MakeDay(getFullYear(t), getMonth(t), date) * MinutesPerDay + TimeWithinDay(t)

setMonth(t, month) ==
  MakeDay(getFullYear(t), month, getDate(t)) * MinutesPerDay + TimeWithinDay(t)

\* the Delay Resolver: the switch of scheduleEmail
resolveDueTime(delay, t) ==
  CASE delay = "immediate" -> setMinutes(t, getMinutes(t) + ImmediateDelay)
    [] delay = "1day" -> setDate(t, getDate(t) + 1)
    [] delay = "1week" -> setDate(t, getDate(t) + 7)
    [] OTHER -> setMonth(t, getMonth(t) + 1)

\* a variant that refuses a client or a template that is not in the store
scheduleEmailValidated(clientId, templateId, delay, language) ==
  /\ ~storeDown
  /\ currentScheduledEmailId <= MaxEmails
  /\ clientId \in DOMAIN clients /\ templateId \in DOMAIN emailTemplates
  /\ scheduledEmails' =
       [id \in DOMAIN scheduledEmails \cup {currentScheduledEmailId} |->
          IF id = currentScheduledEmailId
            THEN createScheduledEmail(
                   [clientId |-> clientId, templateId |-> templateId,
                    scheduledFor |-> resolveDueTime(delay, now),
                    language |-> IF language # "" THEN language ELSE "en"],
                   currentScheduledEmailId)
            ELSE scheduledEmails[id]]
  /\ currentScheduledEmailId' = currentScheduledEmailId + 1
  /\ UNCHANGED << now, intervalId, nextFire, clients, emailTemplates, emailLogs,
                  currentClientId, currentTemplateId, ticks, storeDown,
                  sendCount, timers, fetchErrors >>

\* POST /api/schedule-email -> EmailScheduler.scheduleEmail
scheduleEmail(clientId, templateId, delay, language) ==
  /\ ~storeDown
  /\ currentScheduledEmailId <= MaxEmails
  /\ scheduledEmails' =
       [id \in DOMAIN scheduledEmails \cup {currentScheduledEmailId} |->
          IF id = currentScheduledEmailId
            THEN createScheduledEmail(
                   [clientId |-> clientId, templateId |-> templateId,
                    scheduledFor |-> resolveDueTime(delay, now),
                    language |-> IF language # "" THEN language ELSE "en"],
                   currentScheduledEmailId)
            ELSE scheduledEmails[id]]
  /\ currentScheduledEmailId' = currentScheduledEmailId + 1
  /\ UNCHANGED << now, intervalId, nextFire, clients, emailTemplates, emailLogs,
                  currentClientId, currentTemplateId, ticks, storeDown,
                  sendCount,
                  timers, fetchErrors >>

\* the updateData object PUT /api/scheduled-emails/:id builds from the body
updateDataOf(scheduledFor, status) ==
  (IF scheduledFor # NullTime THEN [scheduledFor |-> scheduledFor] ELSE << >>) @@
  (IF status # "none" THEN [status |-> status] ELSE << >>)

\* PUT /api/scheduled-emails/:id
putScheduledEmail(id, scheduledFor, status) ==
  /\ ~storeDown
  /\ id \in DOMAIN scheduledEmails
  /\ scheduledEmails' =
       updateScheduledEmail(scheduledEmails, id, updateDataOf(scheduledFor, status))
  /\ UNCHANGED << now, intervalId, nextFire, clients, emailTemplates, emailLogs,
                  currentClientId, currentTemplateId, currentScheduledEmailId,
                  ticks, storeDown, sendCount,
                  timers, fetchErrors >>

\* DELETE /api/scheduled-emails/:id
deleteScheduledEmail(id) ==
  /\ ~storeDown
  /\ id \in DOMAIN scheduledEmails
  /\ scheduledEmails' = deleteFrom(scheduledEmails, id)
  /\ UNCHANGED << now, intervalId, nextFire, clients, emailTemplates, emailLogs,
                  currentClientId, currentTemplateId, currentScheduledEmailId,
                  ticks, storeDown, sendCount,
                  timers, fetchErrors >>

\* POST /api/clients
postClient(insertClient) ==
  /\ ~storeDown
  /\ currentClientId <= MaxClients
  /\ clients' = [id \in DOMAIN clients \cup {currentClientId} |->
                   IF id = currentClientId
                     THEN createClient(insertClient, currentClientId)
                     ELSE clients[id]]
  /\ currentClientId' = currentClientId + 1
  /\ UNCHANGED << now, intervalId, nextFire, emailTemplates, scheduledEmails,
                  emailLogs, currentTemplateId, currentScheduledEmailId, ticks,
                  storeDown, sendCount,
                  timers, fetchErrors >>

\* a variant that deletes the logs of the client with it
deleteClientCascade(id) ==
  /\ ~storeDown
  /\ id \in DOMAIN clients
  /\ clients' = deleteFrom(clients, id)
  /\ emailLogs' = SelectSeq(emailLogs, LAMBDA log : log.clientId # id)
  /\ UNCHANGED << now, intervalId, nextFire, emailTemplates, scheduledEmails,
                  currentClientId, currentTemplateId,
                  currentScheduledEmailId, ticks, storeDown, sendCount,
                  timers, fetchErrors >>

\* DELETE /api/clients/:id
deleteClient(id) ==
  /\ ~storeDown
  /\ id \in DOMAIN clients
  /\ clients' = deleteFrom(clients, id)
  /\ UNCHANGED << now, intervalId, nextFire, emailTemplates, scheduledEmails,
                  emailLogs, currentClientId, currentTemplateId,
                  currentScheduledEmailId, ticks, storeDown, sendCount,
                  timers, fetchErrors >>

\* POST /api/templates
postTemplate(insertTemplate) ==
  /\ ~storeDown
  /\ currentTemplateId <= MaxTemplates
  /\ emailTemplates' =
       [id \in DOMAIN emailTemplates \cup {currentTemplateId} |->
          IF id = currentTemplateId
            THEN createEmailTemplate(insertTemplate, currentTemplateId)
            ELSE emailTemplates[id]]
  /\ currentTemplateId' = currentTemplateId + 1
  /\ UNCHANGED << now, intervalId, nextFire, clients, scheduledEmails, emailLogs,
                  currentClientId, currentScheduledEmailId, ticks, storeDown,
                  sendCount,
                  timers, fetchErrors >>

\* PUT /api/clients/:id
putClient(id, clientUpdate) ==
  /\ ~storeDown
  /\ id \in DOMAIN clients
  /\ clients' = updateClient(clients, id, clientUpdate)
  /\ UNCHANGED << now, intervalId, nextFire, emailTemplates, scheduledEmails,
                  emailLogs, currentClientId, currentTemplateId,
                  currentScheduledEmailId, ticks, storeDown, sendCount,
                  timers, fetchErrors >>

\* PUT /api/templates/:id
putTemplate(id, templateUpdate) ==
  /\ ~storeDown
  /\ id \in DOMAIN emailTemplates
  /\ emailTemplates' = updateEmailTemplate(emailTemplates, id, templateUpdate)
  /\ UNCHANGED << now, intervalId, nextFire, clients, scheduledEmails, emailLogs,
                  currentClientId, currentTemplateId, currentScheduledEmailId,
                  ticks, storeDown, sendCount, timers, fetchErrors >>

\* DELETE /api/templates/:id
deleteTemplate(id) ==
  /\ ~storeDown
  /\ id \in DOMAIN emailTemplates
  /\ emailTemplates' = deleteFrom(emailTemplates, id)
  /\ UNCHANGED << now, intervalId, nextFire, clients, scheduledEmails, emailLogs,
                  currentClientId, currentTemplateId, currentScheduledEmailId,
                  ticks, storeDown, sendCount,
                  timers, fetchErrors >>

\* ---------------------------------------------------------------- the clock
\* a minute passes; a timer that is due fires before the clock moves on
advance ==
  /\ now < MaxTime
  /\ ~(timers > 0 /\ nextFire = now)
  /\ now' = now + 1
  /\ UNCHANGED << intervalId, nextFire, clients, emailTemplates, scheduledEmails,
                  emailLogs, currentClientId, currentTemplateId,
                  currentScheduledEmailId, ticks, storeDown, sendCount,
                  timers, fetchErrors >>

\* ------------------------------------------------- a store that rejects calls
storeFails ==
  /\ ~storeDown
  /\ storeDown' = TRUE
  /\ UNCHANGED << now, intervalId, nextFire, clients, emailTemplates,
                  scheduledEmails, emailLogs, currentClientId, currentTemplateId,
                  currentScheduledEmailId, ticks, sendCount,
                  timers, fetchErrors >>

storeRecovers ==
  /\ storeDown
  /\ storeDown' = FALSE
  /\ UNCHANGED << now, intervalId, nextFire, clients, emailTemplates,
                  scheduledEmails, emailLogs, currentClientId, currentTemplateId,
                  currentScheduledEmailId, ticks, sendCount,
                  timers, fetchErrors >>

\* the timer callback when getPendingScheduledEmails rejects: the catch of
\* processPendingEmails logs the error and the call ends
\* a variant without the try/catch: the rejection leaves the timer callback
\* unhandled and the process ends, and its timer with it
fetchFailsUncaught ==
  /\ timers > 0 /\ nextFire = now /\ storeDown
  /\ intervalId' = FALSE
  /\ timers' = 0
  /\ nextFire' = 0
  /\ UNCHANGED << now, clients, emailTemplates, scheduledEmails,
                  emailLogs, currentClientId, currentTemplateId,
                  currentScheduledEmailId, ticks, storeDown, sendCount,
                  fetchErrors >>

fetchFails ==
  /\ timers > 0 /\ nextFire = now /\ storeDown
  /\ nextFire' = now + TickInterval
  /\ fetchErrors' = fetchErrors + 1
  /\ UNCHANGED << now, intervalId, clients, emailTemplates, scheduledEmails,
                  emailLogs, currentClientId, currentTemplateId,
                  currentScheduledEmailId, ticks, storeDown, sendCount,
                  timers >>

\* sendEmail settles while the store rejects: the write after the call rejects,
\* the catch of sendScheduledEmail runs, its own write rejects too, and the
\* error leaves sendScheduledEmail; the catch of processPendingEmails ends the
\* loop
sendEmailSettlesStoreDown(s, outcome) ==
  /\ ticks[s].pc = "sending" /\ storeDown
  /\ ticks' = [ticks EXCEPT ![s] = IdleTick]
  /\ fetchErrors' = fetchErrors + 1
  /\ UNCHANGED << now, intervalId, nextFire, clients, emailTemplates,
                  scheduledEmails, emailLogs, currentClientId, currentTemplateId,
                  currentScheduledEmailId, storeDown, sendCount,
                  timers >>

\* ------------------------------------------------------- the specifications
\* the dispatch engine under the requests of the routes, over MemStorage
Next ==
  \/ start
  \/ advance
  \/ \E s \in Slots : processPendingEmails(s)
  \/ \E s \in Slots, outcome \in TransportOutcomes : sendEmailSettles(s, outcome)
  \/ \E c \in ClientIdInputs, t \in 1..MaxTemplates, d \in DelayInputs,
        l \in LanguageInputs : scheduleEmail(c, t, d, l)
  \/ \E id \in EmailIds, b \in PutBodies : putScheduledEmail(id, b[1], b[2])
  \/ \E id \in EmailIds : deleteScheduledEmail(id)
  \/ \E c \in ClientInputs : postClient(c)
  \/ \E id \in 1..MaxClients : deleteClient(id)
  \/ \E t \in TemplateInputs : postTemplate(t)
  \/ \E id \in 1..MaxTemplates : deleteTemplate(id)

Spec == Init /\ [][Next]_vars

\* the dispatch engine while records are rescheduled and deleted
NextOrder ==
  \/ start
  \/ advance
  \/ \E s \in Slots : processPendingEmails(s)
  \/ \E s \in Slots, outcome \in TransportOutcomes : sendEmailSettles(s, outcome)
  \/ \E c \in ClientIdInputs, t \in 1..MaxTemplates, d \in DelayInputs,
        l \in LanguageInputs : scheduleEmail(c, t, d, l)
  \/ \E id \in EmailIds, b \in RescheduleBodies : putScheduledEmail(id, b[1], b[2])
  \/ \E id \in EmailIds : deleteScheduledEmail(id)
  \/ \E c \in ClientInputs : postClient(c)
  \/ \E t \in TemplateInputs : postTemplate(t)

SpecOrder == Init /\ [][NextOrder]_vars

\* the scheduler started and stopped while it runs
NextTimer ==
  \/ start
  \/ stop
  \/ advance
  \/ \E s \in Slots : processPendingEmails(s)
  \/ \E s \in Slots, outcome \in TransportOutcomes : sendEmailSettles(s, outcome)
  \/ \E c \in ClientIdInputs, t \in 1..MaxTemplates, d \in DelayInputs,
        l \in LanguageInputs : scheduleEmail(c, t, d, l)
  \/ \E c \in ClientInputs : postClient(c)
  \/ \E t \in TemplateInputs : postTemplate(t)

SpecTimer == Init /\ [][NextTimer]_vars

\* rendering and transport outcomes: requests in two languages, templates in
\* two languages, and every way sendEmail can settle
NextRender ==
  \/ start
  \/ advance
  \/ \E s \in Slots : processPendingEmails(s)
  \/ \E s \in Slots, outcome \in AllTransportOutcomes : sendEmailSettles(s, outcome)
  \/ \E c \in ClientIdInputs, t \in 1..MaxTemplates, d \in DelayInputs,
        l \in RenderLanguageInputs : scheduleEmail(c, t, d, l)
  \/ \E c \in RenderClientInputs : postClient(c)
  \/ \E t \in RenderTemplateInputs : postTemplate(t)

SpecRender == Init /\ [][NextRender]_vars

\* the Delay Resolver at instants around the ends of months and years: the
\* clock stands at any of ScheduleInstants and emails are scheduled with
\* every delay (for client 1 and template 1: the resolver reads neither)
ScheduleDates ==
  { <<2023, 0, 1>>, <<2023, 0, 30>>, <<2023, 0, 31>>, <<2023, 1, 1>>,
    <<2023, 1, 28>>, <<2023, 2, 31>>, <<2023, 11, 25>>, <<2023, 11, 31>>,
    <<2024, 0, 31>>, <<2024, 1, 29>> }
ScheduleTimes == {0, 599, 1439}
ScheduleInstants ==
  { MakeDay(d[1], d[2], d[3]) * MinutesPerDay + m : d \in ScheduleDates, m \in ScheduleTimes }

InitSchedule ==
  /\ now \in ScheduleInstants
  /\ intervalId = FALSE
  /\ nextFire = 0
  /\ clients = << >>
  /\ emailTemplates = << >>
  /\ scheduledEmails = << >>
  /\ emailLogs = << >>
  /\ currentClientId = 1
  /\ currentTemplateId = 1
  /\ currentScheduledEmailId = 1
  /\ ticks = [s \in Slots |-> IdleTick]
  /\ storeDown = FALSE
  /\ sendCount = [id \in EmailIds |-> 0]
  /\ timers = 0
  /\ fetchErrors = 0

NextSchedule ==
  \/ \E d \in Delays, l \in LanguageInputs : scheduleEmail(1, 1, d, l)
  \/ \E id \in EmailIds : deleteScheduledEmail(id)

SpecSchedule == InitSchedule /\ [][NextSchedule]_vars

\* the dispatch engine under every create, update and delete of the routes
NextCrud ==
  \/ start
  \/ advance
  \/ \E s \in Slots : processPendingEmails(s)
  \/ \E s \in Slots, outcome \in TransportOutcomes : sendEmailSettles(s, outcome)
  \/ \E c \in ClientIdInputs, t \in 1..MaxTemplates, d \in DelayInputs,
        l \in LanguageInputs : scheduleEmail(c, t, d, l)
  \/ \E id \in EmailIds, b \in CancelBodies : putScheduledEmail(id, b[1], b[2])
  \/ \E id \in EmailIds : deleteScheduledEmail(id)
  \/ \E c \in ClientInputs : postClient(c)
  \/ \E id \in 1..MaxClients, u \in ClientUpdates : putClient(id, u)
  \/ \E id \in 1..MaxClients : deleteClient(id)
  \/ \E t \in TemplateInputs : postTemplate(t)
  \/ \E id \in 1..MaxTemplates, u \in TemplateUpdates : putTemplate(id, u)
  \/ \E id \in 1..MaxTemplates : deleteTemplate(id)

SpecCrud == Init /\ [][NextCrud]_vars

\* scheduling and dispatch over a store whose calls may reject (IStorage
\* returns promises; processPendingEmails and sendScheduledEmail catch)
NextFault ==
  \/ start
  \/ advance
  \/ \E s \in Slots : processPendingEmails(s)
  \/ \E s \in Slots, outcome \in TransportOutcomes : sendEmailSettles(s, outcome)
  \/ \E c \in ClientIdInputs, t \in 1..MaxTemplates, d \in DelayInputs,
        l \in LanguageInputs : scheduleEmail(c, t, d, l)
  \/ \E c \in ClientInputs : postClient(c)
  \/ \E t \in TemplateInputs : postTemplate(t)
  \/ storeFails
  \/ storeRecovers
  \/ fetchFails
  \/ \E s \in Slots, outcome \in TransportOutcomes : sendEmailSettlesStoreDown(s, outcome)

SpecFault == Init /\ [][NextFault]_vars

\* ------------------------------------------------------------- the claims
\* A step of the tick in slot s handles the records of its batch from a first
\* position up to the position it stops at: the record it issues sendEmail
\* for, or the end of the batch.
stopOf(s, batch) ==
  IF ticks'[s].pc = "sending" THEN ticks'[s].i ELSE Len(batch) + 1

\* the steps of the tick in slot s: the timer callback, and sendEmail settling
fetches(s) == nextFire' # nextFire /\ processPendingEmails(s)
settles(s, o) == ticks'[s] # ticks[s] /\ sendEmailSettles(s, o)

fetchedNow == getPendingScheduledEmails(scheduledEmails, now)

usageOf(tp, id) == IF id \in DOMAIN tp THEN tp[id].usageCount ELSE 0

logsOf(logs, id) == { j \in 1..Len(logs) : logs[j].scheduledEmailId = id }

resolves(rec) == rec.clientId \in DOMAIN clients /\ rec.templateId \in DOMAIN emailTemplates

\* C1: once the status of a scheduled email is sent, failed or cancelled, no
\* step (schedule, tick, PUT) changes it again.
C1_TerminalStatusIsFinal ==
  [][\A id \in DOMAIN scheduledEmails \cap DOMAIN scheduledEmails' :
       scheduledEmails[id].status \in Terminal
         => scheduledEmails'[id].status = scheduledEmails[id].status]_vars

\* C2: when sendEmail resolves true for a record, the record (if it is still
\* stored) becomes sent with a sent timestamp and the rendered subject and
\* content, exactly one EmailLog entry with status sent and the record's id is
\* appended, and the usage counter of the record's template (if it is still
\* stored) grows by exactly 1.
C2_SentOnSuccess ==
  [][\A s \in Slots : settles(s, "true") =>
       LET rec == ticks[s].batch[ticks[s].i]
           n == Len(emailLogs)
       IN /\ rec.id \in DOMAIN scheduledEmails =>
               /\ scheduledEmails'[rec.id].status = "sent"
               /\ scheduledEmails'[rec.id].sentAt # NullTime
               /\ scheduledEmails'[rec.id].personalizedSubject = ticks[s].subject
               /\ scheduledEmails'[rec.id].personalizedContent = ticks[s].content
               /\ ticks[s].subject # NullText /\ ticks[s].subject # EmptyText
          /\ Len(emailLogs') = n + 1
          /\ SubSeq(emailLogs', 1, n) = emailLogs
          /\ emailLogs'[n + 1].status = "sent"
          /\ emailLogs'[n + 1].scheduledEmailId = rec.id
          /\ \A t \in DOMAIN emailTemplates :
               emailTemplates'[t].usageCount =
                 emailTemplates[t].usageCount + (IF t = rec.templateId THEN 1 ELSE 0)]_vars

C2_Witness ==
  \E id \in DOMAIN scheduledEmails :
    /\ scheduledEmails[id].status = "sent"
    /\ scheduledEmails[id].sentAt = now
    /\ scheduledEmails[id].personalizedSubject = << <<"lit", "Hi ">>, <<"lit", "Acme">> >>
    /\ scheduledEmails[id].personalizedContent =
         << <<"lit", "Dear ">>, <<"lit", "Acme">>, <<"var", "ghost">> >>
    /\ Cardinality(logsOf(emailLogs, id)) = 1
    /\ usageOf(emailTemplates, scheduledEmails[id].templateId) = 1

\* C3: a record that is processed while its client or its template is not in
\* the store becomes failed (if it is still stored) with errorMessage
\* "Client or template not found"; sendEmail is not called for it, no EmailLog
\* entry for it is created, and its processing changes no usage counter.
C3_NotFoundEffects(s, batch, from) ==
  \A k \in from..(stopOf(s, batch) - 1) :
    ~resolves(batch[k]) =>
      /\ batch[k].id \in DOMAIN scheduledEmails =>
           /\ scheduledEmails'[batch[k].id].status = "failed"
           /\ scheduledEmails'[batch[k].id].errorMessage = NotFoundMsg
      /\ sendCount'[batch[k].id] = sendCount[batch[k].id]
      /\ logsOf(emailLogs', batch[k].id) = logsOf(emailLogs, batch[k].id)

C3_NotFound ==
  [][\A s \in Slots :
       /\ fetches(s) =>
            /\ C3_NotFoundEffects(s, fetchedNow, 1)
            /\ emailTemplates' = emailTemplates /\ emailLogs' = emailLogs
       /\ \A o \in TransportOutcomes : settles(s, o) =>
            /\ C3_NotFoundEffects(s, ticks[s].batch, ticks[s].i + 1)
            /\ \A t \in DOMAIN emailTemplates :
                 emailTemplates'[t].usageCount =
                   emailTemplates[t].usageCount +
                     (IF o = "true" /\ t = ticks[s].batch[ticks[s].i].templateId
                        THEN 1 ELSE 0)]_vars

C3_Witness ==
  \E id \in DOMAIN scheduledEmails :
    /\ scheduledEmails[id].status = "failed"
    /\ scheduledEmails[id].errorMessage = NotFoundMsg
    /\ scheduledEmails[id].clientId = 1 /\ currentClientId = 2 /\ 1 \notin DOMAIN clients
    /\ scheduledEmails[id].templateId \in DOMAIN emailTemplates
    /\ sendCount[id] = 0
    /\ emailLogs = << >>

\* C4: whatever sendEmail does for a record, sendScheduledEmail returns
\* normally: the record (if it is still stored) is sent, or failed with the
\* error in errorMessage, and the loop goes on with the rest of the batch.
C4_NoErrorEscapes ==
  [][\A s \in Slots :
       (ticks[s].pc = "sending" /\ ticks'[s] # ticks[s]) =>
         \A k \in ticks[s].i..(stopOf(s, ticks[s].batch) - 1) :
           ticks[s].batch[k].id \in DOMAIN scheduledEmails =>
             /\ scheduledEmails'[ticks[s].batch[k].id].status \in {"sent", "failed"}
             /\ scheduledEmails'[ticks[s].batch[k].id].status = "failed"
                  => scheduledEmails'[ticks[s].batch[k].id].errorMessage # NullMsg]_vars

\* C5: batch isolation.  Every step of a tick handles each record between
\* the position it starts at and the position it stops at, whatever happened
\* to the records before: a record that is passed over is written failed, the
\* record whose sendEmail resolved true is written sent, and a tick ends only
\* after the last record of its batch.
C5_Handled(s, batch, from) ==
  \A k \in from..(stopOf(s, batch) - 1) :
    batch[k].id \in DOMAIN scheduledEmails =>
      scheduledEmails'[batch[k].id].status \in {"sent", "failed"}

C5_BatchIsolation ==
  [][\A s \in Slots :
       /\ fetches(s) => C5_Handled(s, fetchedNow, 1)
       /\ \A o \in TransportOutcomes : settles(s, o) =>
            /\ C5_Handled(s, ticks[s].batch, ticks[s].i)
            /\ (o = "true" /\ ticks[s].batch[ticks[s].i].id \in DOMAIN scheduledEmails)
                 => scheduledEmails'[ticks[s].batch[ticks[s].i].id].status = "sent"]_vars

\* the first record of a batch failed NotFound and the second one was sent
C5_Witness ==
  /\ DOMAIN scheduledEmails = {1, 2}
  /\ now = 1
  /\ scheduledEmails[1].scheduledFor = 1 /\ scheduledEmails[2].scheduledFor = 1
  /\ scheduledEmails[1].status = "failed"
  /\ scheduledEmails[1].errorMessage = NotFoundMsg
  /\ scheduledEmails[2].status = "sent"
  /\ scheduledEmails[2].sentAt = 1
  /\ sendCount = [id \in EmailIds |-> IF id = 2 THEN 1 ELSE 0]

\* the records whose sendScheduledEmail call begins in a step of the tick in
\* slot s: those passed over and the one sendEmail is issued for
begun(s, batch, from) ==
  { k \in from..Len(batch) : k <= stopOf(s, batch) }

\* C6: a sendScheduledEmail call for a record whose stored status is already
\* sent, failed or cancelled calls sendEmail for no record and leaves the
\* record as it is.
C6_NoOp(s, batch, from) ==
  \A k \in begun(s, batch, from) :
    (batch[k].id \in DOMAIN scheduledEmails
       /\ scheduledEmails[batch[k].id].status \in Terminal) =>
      /\ sendCount'[batch[k].id] = sendCount[batch[k].id]
      /\ scheduledEmails'[batch[k].id] = scheduledEmails[batch[k].id]

C6_Idempotent ==
  [][\A s \in Slots :
       /\ fetches(s) => C6_NoOp(s, fetchedNow, 1)
       /\ \A o \in TransportOutcomes : settles(s, o) =>
            C6_NoOp(s, ticks[s].batch, ticks[s].i + 1)]_vars

\* C7: sendEmail is called at most once for every scheduled email and at most
\* one EmailLog entry references it.
C7_AtMostOnce ==
  \A id \in EmailIds :
    /\ sendCount[id] <= 1
    /\ Cardinality(logsOf(emailLogs, id)) <= 1

\* C8: a record that was cancelled after a tick fetched it and before its
\* sendEmail call is issued gets no sendEmail call and stays cancelled.
C8_StaysCancelled(s, batch, from) ==
  \A k \in begun(s, batch, from) :
    (batch[k].id \in DOMAIN scheduledEmails
       /\ scheduledEmails[batch[k].id].status = "cancelled") =>
      /\ sendCount'[batch[k].id] = sendCount[batch[k].id]
      /\ scheduledEmails'[batch[k].id].status = "cancelled"

C8_CancellationRace ==
  [][\A s \in Slots, o \in TransportOutcomes :
       settles(s, o) =>
         C8_StaysCancelled(s, ticks[s].batch, ticks[s].i + 1)]_vars

\* C9: a status changes only in a step of the dispatch engine, or from pending
\* to cancelled; a PUT never makes a record sent, failed or pending.
C9_ExternalOnlyCancels ==
  [][\A id \in DOMAIN scheduledEmails \cap DOMAIN scheduledEmails' :
       scheduledEmails'[id].status # scheduledEmails[id].status =>
         \/ \E s \in Slots : fetches(s)
         \/ \E s \in Slots, o \in TransportOutcomes : settles(s, o)
         \/ scheduledEmails[id].status = "pending"
              /\ scheduledEmails'[id].status = "cancelled"]_vars

\* C10: a tick that fires at time now skips no record that is pending and due
\* at or before now: each one is written failed in the same step or stands in
\* the batch at or after the position sendEmail is awaited for; and a tick
\* whose sendEmail call returns goes on through the rest of its batch, so it
\* ends only when every record of the batch has been written sent or failed.
C10_Fetched(s) ==
  \A id \in DOMAIN scheduledEmails :
    (scheduledEmails[id].status = "pending" /\ scheduledEmails[id].scheduledFor <= now) =>
      \/ scheduledEmails'[id].status = "failed"
      \/ /\ ticks'[s].pc = "sending"
         /\ \E k \in ticks'[s].i..Len(ticks'[s].batch) : ticks'[s].batch[k].id = id

C10_BoundedResponse ==
  [][\A s \in Slots :
       /\ fetches(s) => C10_Fetched(s)
       /\ \A o \in TransportOutcomes : settles(s, o) =>
            /\ ticks'[s].pc = "sending" =>
                 /\ ticks'[s].batch = ticks[s].batch
                 /\ ticks'[s].i > ticks[s].i
            /\ \A k \in ticks[s].i..Len(ticks[s].batch) :
                 (ticks[s].batch[k].id \in DOMAIN scheduledEmails
                    /\ (ticks'[s].pc = "sending" => k < ticks'[s].i))
                   => scheduledEmails'[ticks[s].batch[k].id].status \in {"sent", "failed"}]_vars

\* a record due exactly at the time of the tick is the one being sent
C10_Witness ==
  \E s \in Slots :
    /\ ticks[s].pc = "sending"
    /\ nextFire = now + TickInterval
    /\ ticks[s].batch[ticks[s].i].id \in DOMAIN scheduledEmails
    /\ scheduledEmails[ticks[s].batch[ticks[s].i].id].scheduledFor = now
    /\ scheduledEmails[ticks[s].batch[ticks[s].i].id].status = "pending"

\* the records that are pending and due at the present time
dueNow ==
  { id \in DOMAIN scheduledEmails :
      scheduledEmails[id].status = "pending" /\ scheduledEmails[id].scheduledFor <= now }

batchIds(batch) == { batch[k].id : k \in 1..Len(batch) }

\* the step leaves the record id and the number of its sendEmail calls alone
untouched(id) ==
  /\ sendCount'[id] = sendCount[id]
  /\ id \in DOMAIN scheduledEmails => scheduledEmails'[id] = scheduledEmails[id]

\* C11: the batch of a tick is exactly the records that are pending and due
\* at or before the time of the fetch.  A record that is due later (also one
\* a PUT moved to the future before the fetch) or that is not pending at the
\* fetch is not in the batch, and no step of that tick calls sendEmail for it
\* or writes it.
C11_DueSetExact ==
  [][\A s \in Slots :
       /\ fetches(s) =>
            /\ ticks'[s].pc = "sending" => batchIds(ticks'[s].batch) = dueNow
            /\ ticks'[s].pc = "idle" =>
                 \A id \in dueNow : scheduledEmails'[id].status = "failed"
            /\ \A id \in EmailIds \ dueNow : untouched(id)
       /\ \A o \in TransportOutcomes : settles(s, o) =>
            /\ ticks'[s].pc = "sending" => ticks'[s].batch = ticks[s].batch
            /\ \A id \in EmailIds \ batchIds(ticks[s].batch) : untouched(id)]_vars

\* a tick took record 1 alone while record 2, moved to the next day by a PUT,
\* or cancelled, stayed out of it
C11_Witness ==
  \E s \in Slots :
    /\ ticks[s].pc = "sending"
    /\ nextFire = now + TickInterval
    /\ batchIds(ticks[s].batch) = {1}
    /\ DOMAIN scheduledEmails = {1, 2}
    /\ scheduledEmails[2].status = "pending"
    /\ scheduledEmails[2].scheduledFor = MinutesPerDay
    /\ sendCount[2] = 0

\* the batch is in ascending order of (scheduledFor, id) in the store se
inDueOrder(batch, se) ==
  \A j, k \in 1..Len(batch) :
    j < k => \/ se[batch[j].id].scheduledFor < se[batch[k].id].scheduledFor
             \/ /\ se[batch[j].id].scheduledFor = se[batch[k].id].scheduledFor
                /\ batch[j].id < batch[k].id

\* C12: the batch of a tick is in ascending order of due timestamp, records
\* with equal due timestamps in ascending order of id, whatever creates,
\* reschedulings and deletes came before; the tick works through it from the
\* front: every record before the one sendEmail is awaited for has been
\* written, and no record after it has been touched.
C12_DueOrder ==
  [][\A s \in Slots :
       /\ (fetches(s) /\ ticks'[s].pc = "sending") =>
            /\ inDueOrder(ticks'[s].batch, scheduledEmails)
            /\ \A k \in 1..Len(ticks'[s].batch) :
                 /\ k < ticks'[s].i =>
                      scheduledEmails'[ticks'[s].batch[k].id].status = "failed"
                 /\ k > ticks'[s].i => untouched(ticks'[s].batch[k].id)
       /\ \A o \in TransportOutcomes : (settles(s, o) /\ ticks'[s].pc = "sending") =>
            /\ ticks'[s].batch = ticks[s].batch
            /\ ticks'[s].i > ticks[s].i
            /\ \A k \in 1..Len(ticks[s].batch) :
                 k > ticks'[s].i => untouched(ticks[s].batch[k].id)]_vars

\* record 2, moved by a PUT to a time before record 1's, is processed first
C12_Witness ==
  \E s \in Slots :
    /\ ticks[s].pc = "sending"
    /\ Len(ticks[s].batch) = 2
    /\ ticks[s].batch[1].id = 2 /\ ticks[s].batch[2].id = 1
    /\ ticks[s].i = 1
    /\ DOMAIN scheduledEmails = {1, 2}
    /\ scheduledEmails[2].scheduledFor < scheduledEmails[1].scheduledFor
    /\ scheduledEmails[1].status = "pending" /\ scheduledEmails[2].status = "pending"

\* C13: at most one setInterval timer is active, and one is active exactly
\* while intervalId is set.  A start() call changes the state only when the
\* scheduler is not running, and then one timer is active; a stop() call
\* changes the state only when it is running, and then none is; no other
\* step sets or clears a timer.
C13_OneTimer ==
  [][/\ timers' <= 1
     /\ intervalId' <=> timers' = 1
     /\ start => (~intervalId /\ timers = 0 /\ timers' = 1)
     /\ stop => (intervalId /\ timers = 1 /\ timers' = 0)
     /\ (timers' # timers \/ intervalId' # intervalId) => (start \/ stop)]_vars

\* the scheduler was started, a tick sent a record, and stop() has cleared the
\* timer while a later sendEmail call of that tick is still in flight
C13_Witness ==
  /\ timers = 0 /\ ~intervalId
  /\ \E id \in DOMAIN scheduledEmails : scheduledEmails[id].status = "sent"
  /\ \E s \in Slots : ticks[s].pc = "sending"

\* the timer fires while the store rejects getPendingScheduledEmails
timerFiresStoreDown ==
  storeDown /\ timers > 0 /\ nextFire = now /\ nextFire' # nextFire

\* C14: when getPendingScheduledEmails rejects, the tick ends at once: no
\* scheduled email, log, template or client changes, sendEmail is not called,
\* no tick is left in flight by it, the error is logged and goes no further,
\* and the timer stays set and fires again one interval later.
C14_FetchFailure ==
  [][timerFiresStoreDown =>
       /\ UNCHANGED << scheduledEmails, emailLogs, emailTemplates, clients,
                       sendCount, ticks >>
       /\ fetchErrors' = fetchErrors + 1
       /\ intervalId' /\ timers' = timers
       /\ nextFire' = now + TickInterval]_vars

\* one fetch failed, and the tick of a later minute fetched the record that
\* came due then and sent it
C14_Witness ==
  /\ fetchErrors = 1
  /\ timers = 1 /\ nextFire = now + TickInterval
  /\ DOMAIN scheduledEmails = {1} /\ currentScheduledEmailId = 2
  /\ scheduledEmails[1].status = "sent"
  /\ scheduledEmails[1].scheduledFor = now /\ scheduledEmails[1].sentAt = now
  /\ sendCount[1] = 1
  /\ Len(emailLogs) = 1

\* the template has a subject and a content in the language
hasBoth(template, language) ==
  Lookup(template.subject, language) # EmptyText
    /\ Lookup(template.content, language) # EmptyText

\* client and template of the record resolve, and neither the effective
\* language nor the primary language has both a subject and a content
contentUnavailable(rec) ==
  /\ resolves(rec)
  /\ ~hasBoth(emailTemplates[rec.templateId],
              effectiveLanguage(rec, clients[rec.clientId]))
  /\ ~hasBoth(emailTemplates[rec.templateId],
              emailTemplates[rec.templateId].primaryLanguage)

C15_Effects(s, batch, from) ==
  \A k \in begun(s, batch, from) :
    contentUnavailable(batch[k]) =>
      /\ batch[k].id \in DOMAIN scheduledEmails =>
           /\ scheduledEmails'[batch[k].id].status = "failed"
           /\ scheduledEmails'[batch[k].id].errorMessage =
                ContentMsg(effectiveLanguage(batch[k], clients[batch[k].clientId]))
      /\ sendCount'[batch[k].id] = sendCount[batch[k].id]
      /\ logsOf(emailLogs', batch[k].id) = logsOf(emailLogs, batch[k].id)

\* C15: a record whose client and template resolve, while neither the
\* effective language nor the template's primary language has both a
\* non-empty subject and a non-empty content, becomes failed with
\* "Template content not available for language: <effective language>";
\* sendEmail is not called for it and no EmailLog entry for it is created.
C15_ContentUnavailable ==
  [][\A s \in Slots :
       /\ fetches(s) => C15_Effects(s, fetchedNow, 1)
       /\ \A o \in AllTransportOutcomes : settles(s, o) =>
            C15_Effects(s, ticks[s].batch, ticks[s].i + 1)]_vars

\* the record sendEmail was awaited for, after the call has settled
settled(s) == scheduledEmails'[ticks[s].batch[ticks[s].i].id]

stillStored(s) == ticks[s].batch[ticks[s].i].id \in DOMAIN scheduledEmails

\* C16 as stated: when sendEmail throws an Error or returns false, the record
\* becomes failed, with the message of the Error if one was thrown and with
\* "Failed to send email" otherwise.
C16_TransportFailure ==
  [][\A s \in Slots :
       /\ (settles(s, "throw") /\ stillStored(s)) =>
            /\ settled(s).status = "failed"
            /\ settled(s).errorMessage = TransportErrorMsg
       /\ \A o \in {"false", "throwValue"} : (settles(s, o) /\ stillStored(s)) =>
            /\ settled(s).status = "failed"
            /\ settled(s).errorMessage = "Failed to send email"]_vars

\* C16 as amended: when sendEmail returns false the record (if it is still
\* stored) becomes failed with "Failed to send email via SendGrid"; when it
\* throws an Error, failed with the message of the Error; when it throws a
\* value that is not an Error, failed with "Unknown error".
C16_TransportFailureAmended ==
  [][\A s \in Slots, o \in {"false", "throw", "throwValue"} :
       (settles(s, o) /\ stillStored(s)) =>
         /\ settled(s).status = "failed"
         /\ settled(s).errorMessage =
              (CASE o = "false" -> "Failed to send email via SendGrid"
                 [] o = "throw" -> TransportErrorMsg
                 [] OTHER -> "Unknown error")
         /\ settled(s).sentAt = scheduledEmails[ticks[s].batch[ticks[s].i].id].sentAt
         /\ emailLogs' = emailLogs]_vars

\* sendEmail returned false for record 1 and threw an Error for record 2
C16_Witness ==
  /\ DOMAIN scheduledEmails = {1, 2}
  /\ scheduledEmails[1].status = "failed"
  /\ scheduledEmails[1].errorMessage = SendFailedMsg
  /\ scheduledEmails[2].status = "failed"
  /\ scheduledEmails[2].errorMessage = TransportErrorMsg
  /\ sendCount = [id \in EmailIds |-> IF id \in {1, 2} THEN 1 ELSE 0]
  /\ emailLogs = << >>

\* C17: scheduleEmail succeeds for every client id and template id, whether
\* or not they are in the store; it adds exactly one record, under the next
\* id, with status pending, the language supplied or "en" when none is, and
\* null sentAt, personalizedSubject, personalizedContent and errorMessage;
\* the records that existed, the clients, the templates and the logs are
\* unchanged.
C17_ScheduleEmail ==
  [][\A c \in ClientIdInputs, t \in 1..MaxTemplates, d \in DelayInputs,
        l \in RenderLanguageInputs :
       /\ currentScheduledEmailId <= MaxEmails => ENABLED scheduleEmail(c, t, d, l)
       /\ scheduleEmail(c, t, d, l) =>
            /\ currentScheduledEmailId \notin DOMAIN scheduledEmails
            /\ DOMAIN scheduledEmails' = DOMAIN scheduledEmails \cup {currentScheduledEmailId}
            /\ \A id \in DOMAIN scheduledEmails : scheduledEmails'[id] = scheduledEmails[id]
            /\ LET rec == scheduledEmails'[currentScheduledEmailId]
               IN /\ rec.id = currentScheduledEmailId
                  /\ rec.clientId = c /\ rec.templateId = t
                  /\ rec.status = "pending"
                  /\ rec.language = (IF l = "" THEN "en" ELSE l)
                  /\ rec.sentAt = NullTime
                  /\ rec.personalizedSubject = NullText
                  /\ rec.personalizedContent = NullText
                  /\ rec.errorMessage = NullMsg
            /\ UNCHANGED << clients, emailTemplates, emailLogs >>]_vars

\* a record in French for a client that was never created, scheduled after an
\* earlier record was sent and logged
C17_Witness ==
  /\ DOMAIN scheduledEmails = {1, 2}
  /\ scheduledEmails[1].status = "sent" /\ Len(emailLogs) = 1
  /\ scheduledEmails[2].status = "pending"
  /\ scheduledEmails[2].language = "fr"
  /\ scheduledEmails[2].clientId \notin DOMAIN clients
  /\ scheduledEmails[2].clientId >= currentClientId
  /\ scheduledEmails[2].sentAt = NullTime
  /\ scheduledEmails[2].errorMessage = NullMsg

\* the due time a scheduleEmail step has stored
dueOfNew == scheduledEmails'[currentScheduledEmailId].scheduledFor

schedules(d) == \E l \in LanguageInputs : scheduleEmail(1, 1, d, l)

\* C18: for every delay the due time is later than now, and it grows with
\* now: scheduling at an earlier instant never gives a later due time, and
\* scheduling at a later instant never gives an earlier one.
C18_LaterAndMonotone ==
  [][\A d \in Delays : schedules(d) =>
       /\ dueOfNew > now
       /\ \A t1 \in ScheduleInstants :
            /\ t1 <= now => resolveDueTime(d, t1) <= dueOfNew
            /\ now <= t1 => dueOfNew <= resolveDueTime(d, t1)]_vars

Min(a, b) == IF a <= b THEN a ELSE b

\* now advanced by one calendar month, the day of the month kept when the
\* resulting month has it and otherwise the last day of that month
oneMonthLater(t) ==
  LET y == getFullYear(t) + ((getMonth(t) + 1) \div 12)
      m == (getMonth(t) + 1) % 12
  IN MakeDay(y, m, Min(getDate(t), DaysInMonth(y, m))) * MinutesPerDay
       + TimeWithinDay(t)

\* C19: for delay 1month the due time is now advanced by one calendar month,
\* the day of the month kept or clamped to the last day of the resulting
\* month; the due date is never in the month after it.
C19_MonthClamped ==
  [][schedules("1month") =>
       /\ dueOfNew = oneMonthLater(now)
       /\ getMonth(dueOfNew) = (getMonth(now) + 1) % 12]_vars

\* C20: for delay immediate the due time is now + 1 minute; for 1day it is
\* the same time of day on the next calendar day, for 1week the same time of
\* day 7 calendar days later, also across the end of a month or a year.
C20_ExactDelays ==
  [][/\ schedules("immediate") => dueOfNew = now + 1
     /\ schedules("1day") =>
          /\ Day(dueOfNew) = Day(now) + 1
          /\ TimeWithinDay(dueOfNew) = TimeWithinDay(now)
     /\ schedules("1week") =>
          /\ Day(dueOfNew) = Day(now) + 7
          /\ TimeWithinDay(dueOfNew) = TimeWithinDay(now)]_vars

\* on 31 December, one minute before midnight: a record due the next minute,
\* in the next year, and one due a week later at the same time of day
C20_Witness ==
  /\ getMonth(now) = 11 /\ getDate(now) = 31 /\ TimeWithinDay(now) = 1439
  /\ DOMAIN scheduledEmails = {1, 2}
  /\ scheduledEmails[1].scheduledFor = now + 1
  /\ getFullYear(scheduledEmails[1].scheduledFor) = getFullYear(now) + 1
  /\ getDate(scheduledEmails[1].scheduledFor) = 1
  /\ getMonth(scheduledEmails[2].scheduledFor) = 0
  /\ getDate(scheduledEmails[2].scheduledFor) = 7
  /\ TimeWithinDay(scheduledEmails[2].scheduledFor) = 1439

\* the step of the tick in slot s issues a sendEmail call
issues(s) ==
  /\ ticks'[s].pc = "sending"
  /\ \/ fetches(s)
     \/ \E o \in AllTransportOutcomes : settles(s, o)

\* the record the call is issued for, its client and its template
issuedRec(s) == ticks'[s].batch[ticks'[s].i]
issuedClient(s) == clients[issuedRec(s).clientId]
issuedTemplate(s) == emailTemplates[issuedRec(s).templateId]
issuedLanguage(s) == effectiveLanguage(issuedRec(s), issuedClient(s))

\* the one language both texts are to come from: the requested language when
\* the template has a subject and a content in it, else the primary language
renderLanguage(template, language) ==
  IF hasBoth(template, language) THEN language ELSE template.primaryLanguage

\* C21: language resolution is all-or-nothing.  The subject and the content
\* handed to sendEmail both come from the requested language when the template
\* has a non-empty subject and a non-empty content in it, and otherwise both
\* come from the primary language; a subject of one language is never paired
\* with a content of another.
C21_AllOrNothing ==
  [][\A s \in Slots :
       (issues(s) /\ (hasBoth(issuedTemplate(s), issuedLanguage(s))
                        \/ hasBoth(issuedTemplate(s), issuedTemplate(s).primaryLanguage))) =>
         LET use == renderLanguage(issuedTemplate(s), issuedLanguage(s))
             bag == variablesOf(issuedClient(s))
         IN /\ ticks'[s].subject = personalizeContent(issuedTemplate(s).subject[use], bag)
            /\ ticks'[s].content = personalizeContent(issuedTemplate(s).content[use], bag)]_vars

\* out is text with every placeholder whose name is a key of the bag replaced
\* by the value of the key, and with everything else as it was
substituted(out, text, bag) ==
  /\ Len(out) = Len(text)
  /\ \A k \in 1..Len(text) :
       IF text[k][1] = "var" /\ text[k][2] \in DOMAIN bag
         THEN out[k] = <<"lit", bag[text[k][2]]>>
         ELSE out[k] = text[k]

C23_PrimaryLanguageValid ==
  \A t \in DOMAIN emailTemplates :
    /\ emailTemplates[t].primaryLanguage \in emailTemplates[t].supportedLanguages
    /\ hasBoth(emailTemplates[t], emailTemplates[t].primaryLanguage)

\* C24: the EmailLog is append-only.  No step removes or changes an entry,
\* whichever client, template or scheduled email is created, updated or
\* deleted.
C24_AppendOnly ==
  [][/\ Len(emailLogs') >= Len(emailLogs)
     /\ SubSeq(emailLogs', 1, Len(emailLogs)) = emailLogs]_vars

\* the log entry of a sent email whose client, template and scheduled email
\* have all been deleted
C24_Witness ==
  /\ Len(emailLogs) = 1
  /\ emailLogs[1].status = "sent"
  /\ emailLogs[1].clientId \notin DOMAIN clients
  /\ emailLogs[1].templateId \notin DOMAIN emailTemplates
  /\ emailLogs[1].scheduledEmailId \notin DOMAIN scheduledEmails
  /\ currentClientId > emailLogs[1].clientId

\* C25: after a client is deleted no scheduled email of that client is
\* pending, and after a template is deleted no scheduled email that uses the
\* template is pending.
C25_DeleteCancels ==
  [][/\ \A c \in 1..MaxClients : deleteClient(c) =>
          \A id \in DOMAIN scheduledEmails' :
            scheduledEmails'[id].clientId = c => scheduledEmails'[id].status # "pending"
     /\ \A t \in 1..MaxTemplates : deleteTemplate(t) =>
          \A id \in DOMAIN scheduledEmails' :
            scheduledEmails'[id].templateId = t => scheduledEmails'[id].status # "pending"]_vars

\* the log entries with status sent that name the template
sentLogsOf(logs, t) ==
  { j \in 1..Len(logs) : logs[j].templateId = t /\ logs[j].status = "sent" }

quiescent == \A s \in Slots : ticks[s].pc = "idle"

\* the step is a sendEmail call for a record of template t resolving true
sentWith(t) ==
  \E s \in Slots :
    settles(s, "true") /\ ticks[s].batch[ticks[s].i].templateId = t

\* C30: whenever no tick is in progress, the usage counter of every stored
\* template is the number of EmailLog entries with status sent for it, one for
\* each dispatch that succeeded with the template; the counter never goes
\* down, and only a successful dispatch with the template changes it: a failed
\* dispatch and a template update leave it as it is.
C30_UsageCount ==
  [][\A t \in DOMAIN emailTemplates' :
       /\ quiescent' =>
            emailTemplates'[t].usageCount = Cardinality(sentLogsOf(emailLogs', t))
       /\ t \in DOMAIN emailTemplates =>
            /\ emailTemplates'[t].usageCount >= emailTemplates[t].usageCount
            /\ emailTemplates'[t].usageCount # emailTemplates[t].usageCount =>
                 /\ sentWith(t)
                 /\ emailTemplates'[t].usageCount = emailTemplates[t].usageCount + 1]_vars

\* two emails were sent with template 1, which was updated afterwards
C30_Witness ==
  /\ quiescent
  /\ 1 \in DOMAIN emailTemplates
  /\ emailTemplates[1].usageCount = 2
  /\ emailTemplates[1].supportedLanguages = {"fr"}
  /\ Cardinality(sentLogsOf(emailLogs, 1)) = 2
  /\ \A id \in DOMAIN scheduledEmails : scheduledEmails[id].status = "sent"

\* the records a step has issued a sendEmail call for
called == { id \in EmailIds : sendCount'[id] # sendCount[id] }

\* C26: a tick processes its records one at a time.  Every step of a tick
\* issues at most one sendEmail call, for the record the tick then waits for;
\* and when a call settles, the status write of its record and, on success,
\* its EmailLog entry and the increment of its template's counter are in the
\* store before the next record is looked at, which stands later in the
\* batch.  So the log entries of a tick are appended in the order of its batch.
C26_OneAtATime ==
  [][\A s \in Slots :
       /\ (fetches(s) \/ \E o \in TransportOutcomes : settles(s, o)) =>
            /\ ticks'[s].pc = "idle" => called = {}
            /\ ticks'[s].pc = "sending" =>
                 /\ called = {ticks'[s].batch[ticks'[s].i].id}
                 /\ sendCount'[ticks'[s].batch[ticks'[s].i].id] =
                      sendCount[ticks'[s].batch[ticks'[s].i].id] + 1
       /\ fetches(s) => emailLogs' = emailLogs
       /\ \A o \in TransportOutcomes : settles(s, o) =>
            LET prev == ticks[s].batch[ticks[s].i]
                n == Len(emailLogs)
            IN /\ prev.id \in DOMAIN scheduledEmails =>
                    scheduledEmails'[prev.id].status = (IF o = "true" THEN "sent" ELSE "failed")
               /\ o = "true" =>
                    /\ Len(emailLogs') = n + 1
                    /\ SubSeq(emailLogs', 1, n) = emailLogs
                    /\ emailLogs'[n + 1].scheduledEmailId = prev.id
                    /\ prev.templateId \in DOMAIN emailTemplates =>
                         emailTemplates'[prev.templateId].usageCount =
                           emailTemplates[prev.templateId].usageCount + 1
               /\ o # "true" => emailLogs' = emailLogs
               /\ ticks'[s].pc = "sending" =>
                    /\ ticks'[s].batch = ticks[s].batch
                    /\ ticks'[s].i > ticks[s].i]_vars

\* one tick sent record 2, due first after a PUT, and then record 1: the log
\* entries stand in that order
C26_Witness ==
  /\ Len(emailLogs) = 2
  /\ emailLogs[1].scheduledEmailId = 2 /\ emailLogs[2].scheduledEmailId = 1
  /\ DOMAIN scheduledEmails = {1, 2}
  /\ scheduledEmails[2].scheduledFor < scheduledEmails[1].scheduledFor
  /\ scheduledEmails[1].status = "sent" /\ scheduledEmails[2].status = "sent"
  /\ sendCount = [id \in EmailIds |-> IF id \in {1, 2} THEN 1 ELSE 0]
  /\ emailTemplates[1].usageCount = 2

\* C27: a record scheduled with delay immediate while the scheduler is running
\* is not yet due when the timer fires next, so the first tick after the
\* scheduling leaves it pending and only a later tick dispatches it.
C27_PendingForOneTick ==
  [][\A c \in ClientIdInputs, t \in 1..MaxTemplates, l \in LanguageInputs :
       (scheduleEmail(c, t, "immediate", l) /\ timers > 0) =>
         scheduledEmails'[currentScheduledEmailId].scheduledFor > nextFire]_vars

\* the language of the record when it is set, else the language of the
\* client, else "en"
languageOf(rec, client) ==
  CASE rec.language # "" -> rec.language
    [] client.language # "" -> client.language
    [] OTHER -> "en"

C28_Passed(s, batch, from) ==
  \A k \in from..(stopOf(s, batch) - 1) :
    (resolves(batch[k]) /\ batch[k].id \in DOMAIN scheduledEmails) =>
      scheduledEmails'[batch[k].id].errorMessage =
        "Template content not available for language: "
          \o languageOf(batch[k], clients[batch[k].clientId])

\* C28: the language a record is dispatched in is record.language when it is
\* set, else the language of the client, else "en"; the EmailLog entry of
\* the send carries this language, and the error message of a record that
\* fails for lack of content names it.
C28_EffectiveLanguage ==
  [][\A s \in Slots :
       /\ issues(s) =>
            ticks'[s].language = languageOf(issuedRec(s), issuedClient(s))
       /\ fetches(s) => C28_Passed(s, fetchedNow, 1)
       /\ \A o \in AllTransportOutcomes : settles(s, o) =>
            /\ C28_Passed(s, ticks[s].batch, ticks[s].i + 1)
            /\ (o = "true" /\ ticks[s].batch[ticks[s].i].clientId \in DOMAIN clients) =>
                 emailLogs'[Len(emailLogs')].language =
                   languageOf(ticks[s].batch[ticks[s].i],
                              clients[ticks[s].batch[ticks[s].i].clientId])]_vars

\* a record in French of a client whose language is English has failed for
\* lack of content, and its message names French
C28_Witness ==
  \E id \in DOMAIN scheduledEmails :
    /\ scheduledEmails[id].language = "fr"
    /\ scheduledEmails[id].clientId \in DOMAIN clients
    /\ clients[scheduledEmails[id].clientId].language = "en"
    /\ scheduledEmails[id].status = "failed"
    /\ scheduledEmails[id].errorMessage = ContentMsg("fr")

\* the variable bag as the claim builds it
bagOf(client) ==
  [k \in {"client_name", "company", "last_interaction"} \cup DOMAIN client.customFields |->
     CASE k \in DOMAIN client.customFields -> client.customFields[k]
       [] k = "client_name" -> client.name
       [] k = "company" -> client.company
       [] OTHER -> IF client.lastInteraction = NullTime THEN "N/A"
                   ELSE toLocaleDateString(client.lastInteraction)]

\* C29: the subject and the content are personalized with a bag that holds
\* client_name, company (empty when the client has none), last_interaction
\* (the formatted date, or "N/A" when the client has none) and every custom
\* field; a custom field named like a built-in is the one that is used.
C29_VariableBag ==
  [][\A s \in Slots : issues(s) =>
       /\ substituted(ticks'[s].subject,
                      resolveText(issuedTemplate(s).subject, issuedLanguage(s),
                                  issuedTemplate(s).primaryLanguage),
                      bagOf(issuedClient(s)))
       /\ substituted(ticks'[s].content,
                      resolveText(issuedTemplate(s).content, issuedLanguage(s),
                                  issuedTemplate(s).primaryLanguage),
                      bagOf(issuedClient(s)))]_vars

\* the custom field client_name went into the subject, and the company, the
\* date of the last interaction and the custom field nickname into the content
C29_Witness ==
  \E s \in Slots :
    /\ ticks[s].pc = "sending"
    /\ ticks[s].subject = << <<"lit", "Bonjour ">>, <<"lit", "Boss">> >>
    /\ ticks[s].content = << <<"lit", "Dear ">>, <<"lit", "Boss">>, <<"lit", "Acme Inc">>,
                             <<"lit", "day 1">>, <<"lit", "Bo">> >>

\* C31: a scheduled email has a sent timestamp, a resolved subject or a
\* resolved content only if its status is sent; a pending, failed or
\* cancelled record has all three null.
C31_AuditFieldsOnlyWhenSent ==
  \A id \in DOMAIN scheduledEmails :
    scheduledEmails[id].status # "sent" =>
      /\ scheduledEmails[id].sentAt = NullTime
      /\ scheduledEmails[id].personalizedSubject = NullText
      /\ scheduledEmails[id].personalizedContent = NullText

\* C32: once the dispatch engine has marked a record failed, no tick fetches
\* it and sendEmail is not called for it again.
C32_NoRetry ==
  [][\A id \in DOMAIN scheduledEmails :
       scheduledEmails[id].status = "failed" =>
         /\ sendCount'[id] = sendCount[id]
         /\ \A s \in Slots : fetches(s) => id \notin batchIds(fetchedNow)]_vars

\* the records the ticks in progress still have to handle
heldIds ==
  UNION { { ticks[s].batch[k].id : k \in ticks[s].i..Len(ticks[s].batch) } :
            s \in { q \in Slots : ticks[q].pc = "sending" } }

\* C33: while the scheduler is stopped no tick begins, and a record that no
\* tick in progress holds stays as it is, also when it becomes due; stop()
\* leaves the ticks in progress alone, and a sendEmail call that settles
\* while the scheduler is stopped still writes the status of its record;
\* start() sets the timer one interval ahead, and the tick that fires then
\* takes every record that is pending and due, the overdue ones included.
C33_StopAndResume ==
  [][/\ ~intervalId =>
          /\ \A s \in Slots : ~fetches(s)
          /\ \A id \in DOMAIN scheduledEmails \ heldIds :
               id \in DOMAIN scheduledEmails' /\ untouched(id)
     /\ stop => (ticks' = ticks /\ scheduledEmails' = scheduledEmails)
     /\ \A s \in Slots, o \in TransportOutcomes :
          (~intervalId /\ settles(s, o) /\ stillStored(s)) =>
            settled(s).status = IF o = "true" THEN "sent" ELSE "failed"
     /\ start => (timers' = 1 /\ nextFire' = now + TickInterval)
     /\ \A s \in Slots : fetches(s) =>
          /\ intervalId
          /\ ticks'[s].pc = "sending" => dueNow \subseteq batchIds(ticks'[s].batch)
          /\ ticks'[s].pc = "idle" =>
               \A id \in dueNow : scheduledEmails'[id].status = "failed"]_vars

\* the scheduler is stopped; record 1, which a tick took before the stop, is
\* written as sent; record 2 became due with no tick to take it: it is
\* pending and sendEmail was never called for it
C33_Witness ==
  /\ ~intervalId /\ timers = 0
  /\ DOMAIN scheduledEmails = {1, 2}
  /\ scheduledEmails[1].status = "sent"
  /\ scheduledEmails[1].sentAt = now
  /\ sendCount[1] = 1 /\ sendCount[2] = 0
  /\ scheduledEmails[2].status = "pending"
  /\ scheduledEmails[2].scheduledFor = now
  /\ scheduledEmails[2].scheduledFor > scheduledEmails[1].scheduledFor

\* the records a step of the tick in slot s fails before it stops
passedIds(s, batch, from) == { batch[k].id : k \in from..(stopOf(s, batch) - 1) }

\* the step writes at most the status and the error message of the records
\* in ids, each to failed with a message, and leaves every other record, and
\* the set of records, as they are
C34_OnlyFailed(ids, others) ==
  /\ DOMAIN scheduledEmails' = DOMAIN scheduledEmails
  /\ \A id \in DOMAIN scheduledEmails \ others :
       IF id \in ids
         THEN /\ scheduledEmails'[id].status = "failed"
              /\ scheduledEmails'[id].errorMessage # NullMsg
              /\ scheduledEmails'[id] =
                   [scheduledEmails[id] EXCEPT
                      !.status = "failed",
                      !.errorMessage = scheduledEmails'[id].errorMessage]
         ELSE scheduledEmails'[id] = scheduledEmails[id]

\* C34: a failed dispatch (client or template not found, no content, sendEmail
\* resolving false or throwing) writes the status and the error message of
\* its record and nothing else: the other fields of the record, the other
\* records, the clients, the templates with their usage counters and the
\* EmailLog are as they were.
C34_FailureFrame ==
  [][\A s \in Slots :
       /\ fetches(s) =>
            /\ C34_OnlyFailed(passedIds(s, fetchedNow, 1), {})
            /\ clients' = clients /\ emailTemplates' = emailTemplates
            /\ emailLogs' = emailLogs
       /\ \A o \in TransportOutcomes \ {"true"} : settles(s, o) =>
            /\ C34_OnlyFailed(passedIds(s, ticks[s].batch, ticks[s].i), {})
            /\ clients' = clients /\ emailTemplates' = emailTemplates
            /\ emailLogs' = emailLogs
       /\ settles(s, "true") =>
            /\ C34_OnlyFailed(passedIds(s, ticks[s].batch, ticks[s].i + 1),
                              {ticks[s].batch[ticks[s].i].id})
            /\ clients' = clients
            /\ emailTemplates' =
                 incrementTemplateUsage(emailTemplates, ticks[s].batch[ticks[s].i].templateId)
            /\ SubSeq(emailLogs', 1, Len(emailLogs)) = emailLogs
            /\ Len(emailLogs') = Len(emailLogs) + 1]_vars

\* record 1 failed in the transport and record 2 for a client that is not
\* stored; both keep their due time, nothing was logged and the usage counter
\* of the template is zero
C34_Witness ==
  /\ DOMAIN scheduledEmails = {1, 2}
  /\ scheduledEmails[1].status = "failed"
  /\ scheduledEmails[1].errorMessage \in {SendFailedMsg, TransportErrorMsg}
  /\ scheduledEmails[2].status = "failed"
  /\ scheduledEmails[2].errorMessage = NotFoundMsg
  /\ \A id \in {1, 2} : scheduledEmails[id].scheduledFor # NullTime
  /\ emailLogs = << >>
  /\ 1 \in DOMAIN emailTemplates /\ emailTemplates[1].usageCount = 0

\* C35: every EmailLog entry has the status sent and the client and template
\* of the scheduled email it names; while that scheduled email is stored,
\* its status is sent and its resolved subject is the subject of the entry.
C35_LogMatchesRecord ==
  \A j \in 1..Len(emailLogs) :
    /\ emailLogs[j].status = "sent"
    /\ emailLogs[j].scheduledEmailId \in DOMAIN scheduledEmails =>
         LET rec == scheduledEmails[emailLogs[j].scheduledEmailId]
         IN /\ rec.clientId = emailLogs[j].clientId
            /\ rec.templateId = emailLogs[j].templateId
            /\ rec.status = "sent"
            /\ rec.personalizedSubject = emailLogs[j].subject

\* C36: the error message of a scheduled email is set exactly when its status
\* is failed.
C36_ErrorMessageIffFailed ==
  \A id \in DOMAIN scheduledEmails :
    scheduledEmails[id].errorMessage # NullMsg <=> scheduledEmails[id].status = "failed"

\* C37: a scheduled email that was deleted is never stored again.  When
\* sendEmail settles for a record that is no longer stored, the write of its
\* status stores nothing, no error is raised, and the tick goes on: it fails
\* or calls sendEmail for the records that follow in its batch.
C37_DeletedStaysDeleted ==
  [][/\ \A id \in EmailIds :
          (id < currentScheduledEmailId /\ id \notin DOMAIN scheduledEmails) =>
            id \notin DOMAIN scheduledEmails'
     /\ \A s \in Slots, o \in TransportOutcomes :
          (settles(s, o) /\ ~stillStored(s)) =>
            /\ fetchErrors' = fetchErrors
            /\ stopOf(s, ticks[s].batch) > ticks[s].i
            /\ C5_Handled(s, ticks[s].batch, ticks[s].i + 1)
            /\ ticks'[s].pc = "sending" =>
                 sendCount'[ticks'[s].batch[ticks'[s].i].id] =
                   sendCount[ticks'[s].batch[ticks'[s].i].id] + 1
            /\ ticks'[s].pc = "idle" =>
                 \A id \in EmailIds : sendCount'[id] = sendCount[id]]_vars

\* a tick took records 1 and 2, record 1 was deleted, sendEmail was called for
\* it once and nothing was logged, and the tick has gone on to record 2
C37_Witness ==
  \E s \in Slots :
    /\ ticks[s].pc = "sending" /\ ticks[s].i = 2
    /\ ticks[s].batch[1].id = 1 /\ ticks[s].batch[2].id = 2
    /\ 1 \notin DOMAIN scheduledEmails
    /\ 2 \in DOMAIN scheduledEmails
    /\ sendCount[1] = 1 /\ sendCount[2] = 1
    /\ emailLogs = << >>

====
